---- MODULE Spec2Model ----
(***************************************************************************)
(* Model of the two training scripts of classification-comparision:        *)
(*   BERT.py   (Pipeline A): fine-tunes a sequence classifier,             *)
(*   SBERT.py  (Pipeline B): fine-tunes a sentence-embedding model on      *)
(*                           sampled pairs and fits a linear probe.        *)
(* Each script is a straight-line program; pc names the statement that is  *)
(* executed next.  Documents are named by their position in dataset.data.  *)
(* Library calls are modelled by their documented effect on the script's   *)
(* variables; the numeric content of tensors is abstracted (a parameter    *)
(* version counter, the set of batches whose gradients are accumulated).   *)
(***************************************************************************)
EXTENDS Integers, Sequences, FiniteSets, TLC

(* ------------------------------ bounds -------------------------------- *)
\* size of the corpus returned by fetch_20newsgroups (18846 in reality)
MaxDocs == 6
\* len(dataset.target_names) (20 in reality)
num_classes == 2
\* Config.train_size / Config.test_size of BERT.py (1000 / 400 in reality)
train_size == 3
test_size == 2
\* batch_size of both DataLoaders of BERT.py (8 in reality)
batch_size == 2
\* test_subset_size of SBERT.py (400 in reality)
test_subset_size == 1

(* ------------------------- program constants -------------------------- *)
\* train_subset_size and num_pairs of SBERT.py, scaled down from 2000 and
\* 1000: three documents are the fewest that let pair creation end, two
\* iterations the fewest that repeat the loop body
train_subset_size == 3
num_pairs == 2
\* Config.epochs
epochs == 3
\* test_size=0.2 of train_test_split, as the fraction 1 / TestFractionDen
TestFractionDen == 5

Classes == 0 .. (num_classes - 1)

VARIABLES
  script,              \* which script runs: "BERT" or "SBERT"
  pc,                  \* the statement executed next
  fault,               \* the unhandled exception that ended the process
  artifact,            \* what has been written to the artifact directory
  documents, labels,   \* dataset.data, dataset.target
  train_texts, test_texts, train_labels, test_labels,
  \* ---- BERT.py
  train_dataset, test_dataset, total_steps,
  epoch, epochs_run, sampler, visited, batch,
  mode, grads, clipped, last_update, params, opt_steps, sched_steps,
  predictions, true_labels, report,
  \* ---- SBERT.py
  train_texts_subset, train_labels_subset,
  test_texts_subset, test_labels_subset,
  train_examples, i, idx1, idx2,
  fit_examples, train_embeddings, test_embeddings, classifier

dataVars == <<documents, labels, train_texts, test_texts, train_labels, test_labels>>
bertVars == <<train_dataset, test_dataset, total_steps, epoch, epochs_run,
              sampler, visited, batch, mode, grads, clipped, last_update,
              opt_steps, sched_steps, true_labels>>
evalVars == <<predictions, report>>
sbertVars == <<train_texts_subset, train_labels_subset, test_texts_subset,
               test_labels_subset, train_examples, i, idx1, idx2,
               fit_examples, train_embeddings, test_embeddings, classifier>>
vars == <<script, pc, fault, artifact, params, dataVars, bertVars, evalVars,
          sbertVars>>

(* ------------------------------ helpers ------------------------------- *)
Min(a, b) == IF a <= b THEN a ELSE b

\* faulty variant: the slice keeps one element too many
Slice_OffByOne(s, k) == SubSeq(s, 1, Min(k + 1, Len(s)))

\* Python's s[:k] for k >= 0
Slice(s, k) == SubSeq(s, 1, Min(k, Len(s)))

Range(s) == {s[k] : k \in 1 .. Len(s)}

\* sorted(set(...)) of a set of integers
RECURSIVE Sorted(_)
Sorted(S) ==
  IF S = {} THEN <<>>
  ELSE LET m == CHOOSE x \in S : \A y \in S : x <= y
       IN <<m>> \o Sorted(S \ {m})

CountOf(c, s) == Cardinality({k \in 1 .. Len(s) : s[k] = c})

\* ceil(a / b) for b > 0
CeilDiv(a, b) == (a + b - 1) \div b

NoFault == [at |-> "none", cause |-> "none"]
NoDataset == [texts |-> <<>>, labels |-> <<>>]
NoUpdate == [batches |-> {}, clipped |-> FALSE]
NoClassifier == [X |-> <<>>, y |-> <<>>]

\* the in-memory state of a freshly started process
FreshData ==
  /\ documents = <<>> /\ labels = <<>>
  /\ train_texts = <<>> /\ test_texts = <<>>
  /\ train_labels = <<>> /\ test_labels = <<>>
FreshBert ==
  /\ train_dataset = NoDataset /\ test_dataset = NoDataset
  /\ total_steps = 0 /\ epoch = 0 /\ epochs_run = 0
  /\ sampler = {} /\ visited = <<>> /\ batch = {}
  /\ mode = "eval" /\ grads = {} /\ clipped = FALSE
  /\ last_update = NoUpdate
  /\ opt_steps = 0 /\ sched_steps = 0
  /\ true_labels = <<>>
FreshEval == predictions = <<>> /\ report = <<>>
FreshSbert ==
  /\ train_texts_subset = <<>> /\ train_labels_subset = <<>>
  /\ test_texts_subset = <<>> /\ test_labels_subset = <<>>
  /\ train_examples = <<>> /\ i = 0 /\ idx1 = 0 /\ idx2 = 0
  /\ fit_examples = <<>> /\ train_embeddings = <<>>
  /\ test_embeddings = <<>> /\ classifier = NoClassifier

Init ==
  /\ script \in {"BERT", "SBERT"}
  /\ pc = "fetch"
  /\ fault = NoFault
  /\ artifact = <<>>
  /\ params = 0
  /\ FreshData /\ FreshBert /\ FreshEval /\ FreshSbert

\* An unhandled exception: the process ends, its memory is lost, the
\* artifact directory keeps what was written.
Crash(cause) ==
  /\ pc' = "fault"
  /\ fault' = [at |-> pc, cause |-> cause]
  /\ documents' = <<>> /\ labels' = <<>>
  /\ train_texts' = <<>> /\ test_texts' = <<>>
  /\ train_labels' = <<>> /\ test_labels' = <<>>
  /\ train_dataset' = NoDataset /\ test_dataset' = NoDataset
  /\ total_steps' = 0 /\ epoch' = 0 /\ epochs_run' = 0
  /\ sampler' = {} /\ visited' = <<>> /\ batch' = {}
  /\ mode' = "eval" /\ grads' = {} /\ clipped' = FALSE
  /\ last_update' = NoUpdate /\ params' = 0
  /\ opt_steps' = 0 /\ sched_steps' = 0
  /\ true_labels' = <<>>
  /\ predictions' = <<>> /\ report' = <<>>
  /\ train_texts_subset' = <<>> /\ train_labels_subset' = <<>>
  /\ test_texts_subset' = <<>> /\ test_labels_subset' = <<>>
  /\ train_examples' = <<>> /\ i' = 0 /\ idx1' = 0 /\ idx2' = 0
  /\ fit_examples' = <<>> /\ train_embeddings' = <<>>
  /\ test_embeddings' = <<>> /\ classifier' = NoClassifier
  /\ UNCHANGED <<script, artifact>>

(* -------------------- dataset preparation (both) ---------------------- *)
\* fetch_20newsgroups(subset="all", shuffle=True, ...): a corpus of n
\* documents, each with a label.  The corpus order is arbitrary and the
\* split permutes it again, so the corpora are enumerated up to renaming of
\* the documents: label vectors are nondecreasing here, and Split keeps the
\* documents of one class in corpus order.  Every pair of label sequences
\* (train, test) the split can return is still produced.
Fetch ==
  /\ pc = "fetch"
  /\ \E n \in 1 .. MaxDocs :
       \E l \in [1 .. n -> Classes] :
         /\ \A k \in 1 .. (n - 1) : l[k] <= l[k + 1]
         /\ documents' = [k \in 1 .. n |-> k]
         /\ labels' = l
  /\ pc' = "split"
  /\ UNCHANGED <<script, fault, artifact, params, train_texts, test_texts,
                 train_labels, test_labels, bertVars, evalVars, sbertVars>>

\* sizes of train_test_split(test_size=0.2): n_test = ceil(0.2 n),
\* n_train = floor(0.8 n) = n - n_test
NTest(n) == CeilDiv(n, TestFractionDen)
NTrain(n) == n - NTest(n)

PresentClasses(l) == {c \in Classes : CountOf(c, l) > 0}

\* the inputs train_test_split(..., stratify=labels) rejects with ValueError
SplitRejects(l) ==
  LET n == Len(l)
      k == Cardinality(PresentClasses(l))
  IN \/ NTrain(n) = 0
     \/ \E c \in PresentClasses(l) : CountOf(c, l) < 2
     \/ NTrain(n) < k
     \/ NTest(n) < k

\* a stratified shuffle: p permutes the indices and the first NTrain go to
\* the train side.  Each class's train count is the floor of its
\* proportional share, plus one for the classes with the largest remainders
\* until NTrain is reached (ties broken at random); the test side takes the
\* rest.
TrainCount(l, p, c) == Cardinality({k \in 1 .. NTrain(Len(l)) : l[p[k]] = c})

\* documents of one class are interchangeable (see Fetch)
UpToRenaming(l, p) ==
  \A a, b \in 1 .. Len(l) : (a < b /\ l[p[a]] = l[p[b]]) => p[a] < p[b]

Stratified(l, p) ==
  LET n == Len(l)
      nt == NTrain(n)
      floor(c) == (nt * CountOf(c, l)) \div n
      rem(c) == (nt * CountOf(c, l)) % n
  IN /\ \A c \in Classes : TrainCount(l, p, c) \in {floor(c), floor(c) + 1}
     /\ \A c, d \in Classes :
          (TrainCount(l, p, c) = floor(c) + 1 /\ TrainCount(l, p, d) = floor(d))
            => rem(c) >= rem(d)

Split ==
  /\ pc = "split"
  /\ ~SplitRejects(labels)
  /\ LET n == Len(documents)
         nt == NTrain(n)
     IN \E p \in Permutations(1 .. n) :
          /\ Stratified(labels, p)
          /\ UpToRenaming(labels, p)
          /\ train_texts' = [k \in 1 .. nt |-> documents[p[k]]]
          /\ train_labels' = [k \in 1 .. nt |-> labels[p[k]]]
          /\ test_texts' = [k \in 1 .. (n - nt) |-> documents[p[nt + k]]]
          /\ test_labels' = [k \in 1 .. (n - nt) |-> labels[p[nt + k]]]
  /\ pc' = "load"
  /\ UNCHANGED <<script, fault, artifact, params, documents, labels, bertVars,
                 evalVars, sbertVars>>

SplitFails ==
  /\ pc = "split"
  /\ SplitRejects(labels)
  /\ Crash("ValueError")

\* BertTokenizer / BertForSequenceClassification.from_pretrained, or
\* SentenceTransformer("all-MiniLM-L6-v2")
LoadPretrained ==
  /\ pc = "load"
  /\ pc' = IF script = "BERT" THEN "datasets" ELSE "subset"
  /\ UNCHANGED <<script, fault, artifact, params, dataVars, bertVars, evalVars,
                 sbertVars>>

\* any failure of the environment (network fetch error, out of memory, ...)
\* propagates unhandled
EnvFault ==
  /\ pc \notin {"done", "fault"}
  /\ Crash("environment")

(* ------------------------------ BERT.py ------------------------------- *)
\* faulty variant: the loader length computed as if drop_last=True
LoaderLen_DropLast(ds) == Len(ds.texts) \div batch_size

\* len(DataLoader(ds, batch_size)) with drop_last=False
LoaderLen(ds) == CeilDiv(Len(ds.texts), batch_size)

\* NewsGroupDataset(texts[:size], labels[:size], tokenizer)
NewsGroupDataset(texts, labs, size) ==
  [texts |-> Slice(texts, size), labels |-> Slice(labs, size)]

\* lines 70-86: the truncated datasets, their loaders, a fresh optimizer and
\* the scheduler configured with total_steps
BERT_Datasets ==
  /\ pc = "datasets" /\ script = "BERT"
  /\ train_dataset' = NewsGroupDataset(train_texts, train_labels, train_size)
  /\ test_dataset' = NewsGroupDataset(test_texts, test_labels, test_size)
  /\ total_steps' = LoaderLen(train_dataset') * epochs
  /\ opt_steps' = 0 /\ sched_steps' = 0
  /\ pc' = "epoch"
  /\ UNCHANGED <<script, fault, artifact, params, dataVars, epoch, epochs_run,
                 sampler, visited, batch, mode, grads, clipped, last_update,
                 true_labels, evalVars, sbertVars>>

\* line 144 entering the loop body, lines 89-91: train_epoch is called,
\* model.train(), and the shuffling loader starts a new pass
BERT_EpochStart ==
  /\ pc = "epoch" /\ epoch < epochs
  /\ mode' = "train"
  /\ sampler' = 1 .. Len(train_dataset.texts)
  /\ visited' = <<>>
  /\ pc' = "batch"
  /\ UNCHANGED <<script, fault, artifact, params, dataVars, train_dataset,
                 test_dataset, total_steps, epoch, epochs_run, batch, grads,
                 clipped, last_update, opt_steps, sched_steps, true_labels,
                 evalVars, sbertVars>>

\* line 144 leaving the loop: range(conf.epochs) is exhausted
BERT_TrainingDone ==
  /\ pc = "epoch" /\ epoch >= epochs
  /\ pc' = "eval"
  /\ UNCHANGED <<script, fault, artifact, params, dataVars, bertVars, evalVars,
                 sbertVars>>

\* line 93: the loader yields the next batch, batch_size documents not yet
\* seen in this pass (fewer for the last batch), in shuffled order
BERT_NextBatch ==
  /\ pc = "batch" /\ sampler # {}
  /\ \E b \in SUBSET sampler :
       /\ Cardinality(b) = Min(batch_size, Cardinality(sampler))
       /\ batch' = b
       /\ sampler' = sampler \ b
       /\ visited' = Append(visited, b)
  /\ pc' = "forward"
  /\ UNCHANGED <<script, fault, artifact, params, dataVars, train_dataset,
                 test_dataset, total_steps, epoch, epochs_run, mode, grads,
                 clipped, last_update, opt_steps, sched_steps, true_labels,
                 evalVars, sbertVars>>

\* faulty variant: a checkpoint is written at the end of every epoch
BERT_EpochEnd_Checkpoint ==
  /\ pc = "batch" /\ sampler = {}
  /\ epoch' = epoch + 1
  /\ epochs_run' = epochs_run + 1
  /\ artifact' = Append(artifact, [item |-> "model", version |-> params])
  /\ pc' = "epoch"
  /\ UNCHANGED <<script, fault, params, dataVars, train_dataset,
                 test_dataset, total_steps, sampler, visited, batch, mode,
                 grads, clipped, last_update, opt_steps, sched_steps,
                 true_labels, evalVars, sbertVars>>

\* lines 93 (loader exhausted), 118, 147: train_epoch returns
BERT_EpochEnd ==
  /\ pc = "batch" /\ sampler = {}
  /\ epoch' = epoch + 1
  /\ epochs_run' = epochs_run + 1
  /\ pc' = "epoch"
  /\ UNCHANGED <<script, fault, artifact, params, dataVars, train_dataset,
                 test_dataset, total_steps, sampler, visited, batch, mode,
                 grads, clipped, last_update, opt_steps, sched_steps,
                 true_labels, evalVars, sbertVars>>

\* lines 94-110: forward pass, loss, batch accuracy
BERT_Forward ==
  /\ pc = "forward"
  /\ pc' = "backward"
  /\ UNCHANGED <<script, fault, artifact, params, dataVars, bertVars, evalVars,
                 sbertVars>>

\* line 112: loss.backward() adds this batch's gradients to the stored ones
BERT_Backward ==
  /\ pc = "backward"
  /\ grads' = grads \cup {<<epoch, batch>>}
  /\ clipped' = FALSE
  /\ pc' = "clip"
  /\ UNCHANGED <<script, fault, artifact, params, dataVars, train_dataset,
                 test_dataset, total_steps, epoch, epochs_run, sampler, visited,
                 batch, mode, last_update, opt_steps, sched_steps, true_labels,
                 evalVars, sbertVars>>

\* line 113: clip_grad_norm_(model.parameters(), max_norm=1.0)
BERT_ClipGrad ==
  /\ pc = "clip"
  /\ clipped' = TRUE
  /\ pc' = "opt_step"
  /\ UNCHANGED <<script, fault, artifact, params, dataVars, train_dataset,
                 test_dataset, total_steps, epoch, epochs_run, sampler, visited,
                 batch, mode, grads, last_update, opt_steps, sched_steps,
                 true_labels, evalVars, sbertVars>>

\* line 114: optimizer.step() updates the parameters from the stored
\* gradients
BERT_OptimizerStep ==
  /\ pc = "opt_step"
  /\ params' = params + 1
  /\ opt_steps' = opt_steps + 1
  /\ last_update' = [batches |-> grads, clipped |-> clipped]
  /\ pc' = "sched_step"
  /\ UNCHANGED <<script, fault, artifact, dataVars, train_dataset, test_dataset,
                 total_steps, epoch, epochs_run, sampler, visited, batch, mode,
                 grads, clipped, sched_steps, true_labels, evalVars, sbertVars>>

\* line 115: scheduler.step()
BERT_SchedulerStep ==
  /\ pc = "sched_step"
  /\ sched_steps' = sched_steps + 1
  /\ pc' = "zero_grad"
  /\ UNCHANGED <<script, fault, artifact, params, dataVars, train_dataset,
                 test_dataset, total_steps, epoch, epochs_run, sampler, visited,
                 batch, mode, grads, clipped, last_update, opt_steps,
                 true_labels, evalVars, sbertVars>>

\* faulty variant: the gradients are not reset
BERT_ZeroGrad_Skipped ==
  /\ pc = "zero_grad"
  /\ pc' = "batch"
  /\ UNCHANGED <<script, fault, artifact, params, dataVars, train_dataset,
                 test_dataset, total_steps, epoch, epochs_run, sampler, visited,
                 batch, mode, grads, clipped, last_update, opt_steps,
                 sched_steps, true_labels, evalVars, sbertVars>>

\* line 116: optimizer.zero_grad()
BERT_ZeroGrad ==
  /\ pc = "zero_grad"
  /\ grads' = {}
  /\ clipped' = FALSE
  /\ pc' = "batch"
  /\ UNCHANGED <<script, fault, artifact, params, dataVars, train_dataset,
                 test_dataset, total_steps, epoch, epochs_run, sampler, visited,
                 batch, mode, last_update, opt_steps, sched_steps, true_labels,
                 evalVars, sbertVars>>

\* lines 150, 121-125: eval_model is called
BERT_EvalStart ==
  /\ pc = "eval"
  /\ mode' = "eval"
  /\ predictions' = <<>>
  /\ true_labels' = <<>>
  /\ pc' = "eval_batch"
  /\ UNCHANGED <<script, fault, artifact, params, dataVars, train_dataset,
                 test_dataset, total_steps, epoch, epochs_run, sampler, visited,
                 batch, grads, clipped, last_update, opt_steps, sched_steps,
                 report, sbertVars>>

\* faulty variant: the evaluation loop also takes an optimizer step
BERT_EvalBatch_Training ==
  /\ pc = "eval_batch"
  /\ Len(true_labels) < Len(test_dataset.texts)
  /\ LET pos == Len(true_labels)
         k == Min(batch_size, Len(test_dataset.texts) - pos)
     IN /\ \E preds \in [1 .. k -> Classes] :
             predictions' = predictions \o preds
        /\ true_labels' = true_labels \o SubSeq(test_dataset.labels, pos + 1, pos + k)
  /\ params' = params + 1
  /\ opt_steps' = opt_steps + 1
  /\ pc' = "eval_batch"
  /\ UNCHANGED <<script, fault, artifact, dataVars, train_dataset,
                 test_dataset, total_steps, epoch, epochs_run, sampler, visited,
                 batch, mode, grads, clipped, last_update,
                 sched_steps, report, sbertVars>>

\* lines 126-139: one batch of the unshuffled test loader; the model's
\* argmax over num_labels logits is any class
BERT_EvalBatch ==
  /\ pc = "eval_batch"
  /\ Len(true_labels) < Len(test_dataset.texts)
  /\ LET pos == Len(true_labels)
         k == Min(batch_size, Len(test_dataset.texts) - pos)
     IN /\ \E preds \in [1 .. k -> Classes] :
             predictions' = predictions \o preds
        /\ true_labels' = true_labels \o SubSeq(test_dataset.labels, pos + 1, pos + k)
  /\ pc' = "eval_batch"
  /\ UNCHANGED <<script, fault, artifact, params, dataVars, train_dataset,
                 test_dataset, total_steps, epoch, epochs_run, sampler, visited,
                 batch, mode, grads, clipped, last_update, opt_steps,
                 sched_steps, report, sbertVars>>

\* line 141: eval_model returns
BERT_EvalEnd ==
  /\ pc = "eval_batch"
  /\ Len(true_labels) >= Len(test_dataset.texts)
  /\ pc' = "metrics"
  /\ UNCHANGED <<script, fault, artifact, params, dataVars, bertVars, evalVars,
                 sbertVars>>

(* --------------------------- evaluation report ------------------------ *)
\* dataset.target_names[c]
target_name(c) == <<"target_name", c>>

\* [dataset.target_names[i] for i in sorted(set(y))]
TargetNames(y) ==
  LET ls == Sorted(Range(y)) IN [k \in 1 .. Len(ls) |-> target_name(ls[k])]

\* classification_report without labels=: the classes are
\* unique_labels(y_true, y_pred)
ReportLabels(y_true, y_pred) == Sorted(Range(y_true) \cup Range(y_pred))

\* ... and a target_names list of another length is a ValueError
ReportRejects(y_true, y_pred, names) ==
  Len(ReportLabels(y_true, y_pred)) # Len(names)

\* one row per class, named by target_names in order
ClassificationReport(y_true, y_pred, names) ==
  LET ls == ReportLabels(y_true, y_pred)
  IN [k \in 1 .. Len(ls) |-> [label |-> ls[k], name |-> names[k]]]

\* lines 152-155
BERT_Report ==
  /\ pc = "metrics" /\ script = "BERT"
  /\ LET names == TargetNames(Slice(test_labels, test_size))
     IN /\ ~ReportRejects(true_labels, predictions, names)
        /\ report' = ClassificationReport(true_labels, predictions, names)
  /\ pc' = "save_model"
  /\ UNCHANGED <<script, fault, artifact, params, dataVars, bertVars,
                 predictions, sbertVars>>

BERT_ReportFails ==
  /\ pc = "metrics" /\ script = "BERT"
  /\ ReportRejects(true_labels, predictions,
                   TargetNames(Slice(test_labels, test_size)))
  /\ Crash("ValueError")

\* line 157: model.save_pretrained
BERT_SaveModel ==
  /\ pc = "save_model"
  /\ artifact' = Append(artifact, [item |-> "model", version |-> params])
  /\ pc' = "save_tokenizer"
  /\ UNCHANGED <<script, fault, params, dataVars, bertVars, evalVars, sbertVars>>

\* lines 158-159: tokenizer.save_pretrained
BERT_SaveTokenizer ==
  /\ pc = "save_tokenizer"
  /\ artifact' = Append(artifact, [item |-> "tokenizer", version |-> 0])
  /\ pc' = "done"
  /\ UNCHANGED <<script, fault, params, dataVars, bertVars, evalVars, sbertVars>>

NextBERT ==
  \/ BERT_Datasets
  \/ BERT_EpochStart
  \/ BERT_TrainingDone
  \/ BERT_NextBatch
  \/ BERT_EpochEnd
  \/ BERT_Forward
  \/ BERT_Backward
  \/ BERT_ClipGrad
  \/ BERT_OptimizerStep
  \/ BERT_SchedulerStep
  \/ BERT_ZeroGrad
  \/ BERT_EvalStart
  \/ BERT_EvalBatch
  \/ BERT_EvalEnd
  \/ BERT_Report
  \/ BERT_ReportFails
  \/ BERT_SaveModel
  \/ BERT_SaveTokenizer

(* ------------------------------ SBERT.py ------------------------------ *)
\* lines 30-41: the truncated subsets and the empty example list
SBERT_Subset ==
  /\ pc = "subset" /\ script = "SBERT"
  /\ train_texts_subset' = Slice(train_texts, train_subset_size)
  /\ train_labels_subset' = Slice(train_labels, train_subset_size)
  /\ test_texts_subset' = Slice(test_texts, test_subset_size)
  /\ test_labels_subset' = Slice(test_labels, test_subset_size)
  /\ train_examples' = <<>>
  /\ pc' = "for_pairs"
  /\ UNCHANGED <<script, fault, artifact, params, dataVars, bertVars, evalVars,
                 i, idx1, idx2, fit_examples, train_embeddings,
                 test_embeddings, classifier>>

\* np.random.choice(n, 2, replace=False): two distinct indices in 0 .. n-1
Choice2(n) == {pr \in (0 .. (n - 1)) \X (0 .. (n - 1)) : pr[1] # pr[2]}

\* train_labels_subset[idx] with numpy's 0-based index
LabelAt(idx) == train_labels_subset[idx + 1]
TextAt(idx) == train_texts_subset[idx + 1]

\* InputExample(texts=[str(a), str(b)], label=...); the texts are strings
\* already, str() returns them unchanged
InputExample(a, b, label) == [texts |-> <<a, b>>, label |-> label]

\* line 42 entering the loop body
SBERT_ForPairs ==
  /\ pc = "for_pairs" /\ i < num_pairs
  /\ pc' = "draw_same"
  /\ UNCHANGED <<script, fault, artifact, params, dataVars, bertVars, evalVars,
                 sbertVars>>

\* faulty variant: the loop ends one iteration early
SBERT_PairsDone_OffByOne ==
  /\ pc = "for_pairs" /\ i >= num_pairs - 1
  /\ pc' = "fit"
  /\ UNCHANGED <<script, fault, artifact, params, dataVars, bertVars, evalVars,
                 sbertVars>>

\* line 42 leaving the loop: range(num_pairs) is exhausted
SBERT_PairsDone ==
  /\ pc = "for_pairs" /\ i >= num_pairs
  /\ pc' = "fit"
  /\ UNCHANGED <<script, fault, artifact, params, dataVars, bertVars, evalVars,
                 sbertVars>>

Draw(nextpc) ==
  /\ \E pr \in Choice2(Len(train_texts_subset)) :
       /\ idx1' = pr[1]
       /\ idx2' = pr[2]
  /\ pc' = nextpc
  /\ UNCHANGED <<script, fault, artifact, params, dataVars, bertVars, evalVars,
                 train_texts_subset, train_labels_subset, test_texts_subset,
                 test_labels_subset, train_examples, i, fit_examples,
                 train_embeddings, test_embeddings, classifier>>

\* line 43
SBERT_DrawSame ==
  /\ pc = "draw_same"
  /\ Len(train_texts_subset) >= 2
  /\ Draw("while_same")

\* line 43 with fewer than two documents: np.random.choice raises
\* ValueError (cannot take a larger sample than population)
SBERT_DrawSameFails ==
  /\ pc = "draw_same"
  /\ Len(train_texts_subset) < 2
  /\ Crash("ValueError")

\* lines 44-45: the labels differ, draw again
SBERT_RedrawSame ==
  /\ pc = "while_same"
  /\ LabelAt(idx1) # LabelAt(idx2)
  /\ Draw("while_same")

AppendExample(label, nexti, nextpc) ==
  /\ train_examples' =
       Append(train_examples, InputExample(TextAt(idx1), TextAt(idx2), label))
  /\ i' = nexti
  /\ pc' = nextpc
  /\ UNCHANGED <<script, fault, artifact, params, dataVars, bertVars, evalVars,
                 train_texts_subset, train_labels_subset, test_texts_subset,
                 test_labels_subset, idx1, idx2, fit_examples,
                 train_embeddings, test_embeddings, classifier>>

\* faulty variant: the drawn pair is appended without the label test
SBERT_AppendSame_NoCheck ==
  /\ pc = "while_same"
  /\ AppendExample(1, i, "draw_diff")

\* lines 44 (condition false), 47
SBERT_AppendSame ==
  /\ pc = "while_same"
  /\ ~(LabelAt(idx1) # LabelAt(idx2))
  /\ AppendExample(1, i, "draw_diff")

\* line 49
SBERT_DrawDiff ==
  /\ pc = "draw_diff"
  /\ Draw("while_diff")

\* lines 50-51: the labels are equal, draw again
SBERT_RedrawDiff ==
  /\ pc = "while_diff"
  /\ LabelAt(idx1) = LabelAt(idx2)
  /\ Draw("while_diff")

\* faulty variant: the drawn pair is appended without the label test
SBERT_AppendDiff_NoCheck ==
  /\ pc = "while_diff"
  /\ AppendExample(0, i + 1, "for_pairs")

\* lines 50 (condition false), 53, and the loop variable advancing
SBERT_AppendDiff ==
  /\ pc = "while_diff"
  /\ ~(LabelAt(idx1) = LabelAt(idx2))
  /\ AppendExample(0, i + 1, "for_pairs")

\* batch_size of the pair DataLoader
fit_batch_size == 16

\* lines 55-66: model.fit for one epoch over the shuffled examples, one
\* parameter update per batch
SBERT_Fit ==
  /\ pc = "fit"
  /\ fit_examples' = train_examples
  /\ params' = params + CeilDiv(Len(train_examples), fit_batch_size)
  /\ pc' = "encode_train"
  /\ UNCHANGED <<script, fault, artifact, dataVars, bertVars, evalVars,
                 train_texts_subset, train_labels_subset, test_texts_subset,
                 test_labels_subset, train_examples, i, idx1, idx2,
                 train_embeddings, test_embeddings, classifier>>

\* lines 70-75: one embedding per train-subset text, in order
SBERT_EncodeTrain ==
  /\ pc = "encode_train"
  /\ train_embeddings' = train_texts_subset
  /\ pc' = "encode_test"
  /\ UNCHANGED <<script, fault, artifact, params, dataVars, bertVars, evalVars,
                 train_texts_subset, train_labels_subset, test_texts_subset,
                 test_labels_subset, train_examples, i, idx1, idx2,
                 fit_examples, test_embeddings, classifier>>

\* lines 77-85
SBERT_EncodeTest ==
  /\ pc = "encode_test"
  /\ test_embeddings' = test_texts_subset
  /\ pc' = "classifier_fit"
  /\ UNCHANGED <<script, fault, artifact, params, dataVars, bertVars, evalVars,
                 train_texts_subset, train_labels_subset, test_texts_subset,
                 test_labels_subset, train_examples, i, idx1, idx2,
                 fit_examples, train_embeddings, classifier>>

\* faulty variant: the probe is fitted on the test embeddings too
SBERT_ClassifierFit_Leak ==
  /\ pc = "classifier_fit"
  /\ classifier' = [X |-> train_embeddings \o test_embeddings,
                    y |-> train_labels_subset \o test_labels_subset]
  /\ pc' = "predict"
  /\ UNCHANGED <<script, fault, artifact, params, dataVars, bertVars, evalVars,
                 train_texts_subset, train_labels_subset, test_texts_subset,
                 test_labels_subset, train_examples, i, idx1, idx2,
                 fit_examples, train_embeddings, test_embeddings>>

\* lines 87-89.  (LogisticRegression.fit rejects a single-class y; pair
\* creation only ends when the train subset holds two classes.)
SBERT_ClassifierFit ==
  /\ pc = "classifier_fit"
  /\ classifier' = [X |-> train_embeddings, y |-> train_labels_subset]
  /\ pc' = "predict"
  /\ UNCHANGED <<script, fault, artifact, params, dataVars, bertVars, evalVars,
                 train_texts_subset, train_labels_subset, test_texts_subset,
                 test_labels_subset, train_examples, i, idx1, idx2,
                 fit_examples, train_embeddings, test_embeddings>>

\* classifier.predict(X): one of the classes seen in fit, per row
Predict(n) == [1 .. n -> Range(classifier.y)]

\* lines 91-92
SBERT_Predict ==
  /\ pc = "predict"
  /\ \E preds \in Predict(Len(test_embeddings)) : predictions' = preds
  /\ pc' = "metrics"
  /\ UNCHANGED <<script, fault, artifact, params, dataVars, bertVars, report,
                 sbertVars>>

\* lines 94-101
SBERT_Report ==
  /\ pc = "metrics" /\ script = "SBERT"
  /\ LET names == TargetNames(test_labels_subset)
     IN /\ ~ReportRejects(test_labels_subset, predictions, names)
        /\ report' = ClassificationReport(test_labels_subset, predictions, names)
  /\ pc' = "save"
  /\ UNCHANGED <<script, fault, artifact, params, dataVars, bertVars,
                 predictions, sbertVars>>

SBERT_ReportFails ==
  /\ pc = "metrics" /\ script = "SBERT"
  /\ ReportRejects(test_labels_subset, predictions,
                   TargetNames(test_labels_subset))
  /\ Crash("ValueError")

\* lines 103-104: model.save
SBERT_Save ==
  /\ pc = "save"
  /\ artifact' = Append(artifact, [item |-> "model", version |-> params])
  /\ pc' = "examples"
  /\ UNCHANGED <<script, fault, params, dataVars, bertVars, evalVars, sbertVars>>

\* len(test_sentences)
num_test_sentences == 3

\* lines 106-118: the three example sentences are encoded, classified and
\* printed; predictions is reassigned
SBERT_Examples ==
  /\ pc = "examples"
  /\ \E preds \in Predict(num_test_sentences) : predictions' = preds
  /\ pc' = "done"
  /\ UNCHANGED <<script, fault, artifact, params, dataVars, bertVars, report,
                 sbertVars>>

NextSBERT ==
  \/ SBERT_Subset
  \/ SBERT_ForPairs
  \/ SBERT_PairsDone
  \/ SBERT_DrawSame
  \/ SBERT_DrawSameFails
  \/ SBERT_RedrawSame
  \/ SBERT_AppendSame
  \/ SBERT_DrawDiff
  \/ SBERT_RedrawDiff
  \/ SBERT_AppendDiff
  \/ SBERT_Fit
  \/ SBERT_EncodeTrain
  \/ SBERT_EncodeTest
  \/ SBERT_ClassifierFit
  \/ SBERT_Predict
  \/ SBERT_Report
  \/ SBERT_ReportFails
  \/ SBERT_Save
  \/ SBERT_Examples

Next ==
  \/ Fetch
  \/ Split
  \/ SplitFails
  \/ LoadPretrained
  \/ EnvFault
  \/ NextBERT
  \/ NextSBERT

Spec == Init /\ [][Next]_vars

(* ---------------------- fairness of pair creation --------------------- *)
\* the statements of the pair loop that are not redraws
PairProgress ==
  \/ SBERT_ForPairs
  \/ SBERT_PairsDone
  \/ SBERT_DrawSame
  \/ SBERT_AppendSame
  \/ SBERT_DrawDiff
  \/ SBERT_AppendDiff

\* a redraw of line 45 / 51 that returns a pair ending the while loop
AcceptSame ==
  SBERT_RedrawSame /\ train_labels_subset[idx1' + 1] = train_labels_subset[idx2' + 1]
AcceptDiff ==
  SBERT_RedrawDiff /\ train_labels_subset[idx1' + 1] # train_labels_subset[idx2' + 1]

\* The script keeps running, and independent uniform draws return every
\* pair again and again: a pair that ends the loop is eventually drawn.
FairSpec ==
  Spec /\ WF_vars(PairProgress) /\ WF_vars(AcceptSame) /\ WF_vars(AcceptDiff)

(* ------------------------------ properties ---------------------------- *)
BertTrainPcs == {"batch", "forward", "backward", "clip", "opt_step",
                 "sched_step", "zero_grad"}
BertEvalPcs == {"eval", "eval_batch"}
BertAfterDatasets == {"epoch"} \cup BertTrainPcs \cup BertEvalPcs
                       \cup {"metrics", "save_model", "save_tokenizer", "done"}
PairPcs == {"for_pairs", "draw_same", "while_same", "draw_diff", "while_diff"}
AfterPairs == {"fit", "encode_train", "encode_test", "classifier_fit",
               "predict", "metrics", "save", "examples", "done"}
SbertAfterSubset == PairPcs \cup AfterPairs

\* dataset.target of a document
ClassOf(doc) == labels[doc]

IsPrefix(s, t) == Len(s) <= Len(t) /\ \A k \in 1 .. Len(s) : s[k] = t[k]

\* C1: every example with label 1.0 pairs two train-subset documents of the
\* same class, every example with label 0.0 two train-subset documents of
\* different classes.
C1_PairLabelsMatch ==
  \A k \in 1 .. Len(train_examples) :
    LET e == train_examples[k]
    IN /\ e.texts[1] \in Range(train_texts_subset)
       /\ e.texts[2] \in Range(train_texts_subset)
       /\ e.label \in {0, 1}
       /\ (e.label = 1) <=> (ClassOf(e.texts[1]) = ClassOf(e.texts[2]))

C1_Witness ==
  /\ script = "SBERT" /\ pc = "for_pairs" /\ i = num_pairs
  /\ \E k \in 1 .. Len(train_examples) : train_examples[k].label = 1
  /\ \E k \in 1 .. Len(train_examples) : train_examples[k].label = 0

\* C2 (as claimed): in both scripts the report is always produced, whatever
\* the model predicts, with one row per distinct label of the truncated
\* test subset: classification_report never raises ValueError.
C2_ReportAlwaysProduced ==
  /\ ~(pc = "fault" /\ fault.at = "metrics" /\ fault.cause = "ValueError")
  /\ (script = "BERT" /\ pc \in {"save_model", "save_tokenizer", "done"})
       => [k \in 1 .. Len(report) |-> report[k].label]
            = Sorted(Range(test_dataset.labels))
  /\ (script = "SBERT" /\ pc \in {"save", "examples", "done"})
       => [k \in 1 .. Len(report) |-> report[k].label]
            = Sorted(Range(test_labels_subset))

\* the train subset holds two distinct documents of one class / of two classes
HasSamePair ==
  \E a, b \in 1 .. Len(train_labels_subset) :
    a # b /\ train_labels_subset[a] = train_labels_subset[b]
HasDiffPair ==
  \E a, b \in 1 .. Len(train_labels_subset) :
    train_labels_subset[a] # train_labels_subset[b]
Terminable == HasSamePair /\ HasDiffPair

InPairs == script = "SBERT" /\ pc \in PairPcs

\* C3 (as claimed): when a same-class pair or a different-class pair is
\* missing, the redraw loop runs forever: pair creation is then left only
\* by a failure of the environment.
C3_LoopsForeverUnlessTerminable ==
  [][(InPairs /\ ~Terminable /\ pc' \notin PairPcs)
       => (pc' = "fault" /\ fault'.cause = "environment")]_vars

\* C3 (amended): under fair draws pair creation ends exactly when the train
\* subset holds a same-class pair and a different-class pair.  With at
\* least two documents and one of the two missing, the corresponding redraw
\* loop runs forever (without a same-class pair no example is ever
\* appended, without a different-class pair only the first same-class
\* one); with fewer than two documents the first draw raises ValueError.
\* In no such case is fine-tuning reached.
C3_PairCreationTermination ==
  /\ (InPairs /\ Terminable) ~> (pc \in {"fit", "fault"})
  /\ []((script = "SBERT" /\ pc \in AfterPairs) => Terminable)
  /\ [][(InPairs /\ ~Terminable /\ Len(train_labels_subset) >= 2
           /\ pc' \notin PairPcs)
          => (pc' = "fault" /\ fault'.cause = "environment")]_vars
  /\ []((InPairs /\ ~HasSamePair /\ Len(train_labels_subset) >= 2)
          => (pc \in {"for_pairs", "draw_same", "while_same"}
              /\ train_examples = <<>>))
  /\ []((InPairs /\ HasSamePair /\ ~HasDiffPair)
          => (i = 0 /\ Len(train_examples) <= 1))
  /\ [][(InPairs /\ pc = "draw_same" /\ Len(train_labels_subset) < 2)
          => pc' = "fault"]_vars

C3_Witness ==
  /\ script = "SBERT" /\ pc = "fit" /\ Terminable
  /\ Len(train_examples) = 2 * num_pairs

\* C4: pair creation appends one same-class example and then one
\* different-class example per iteration; when it has finished,
\* train_examples holds 2 * num_pairs examples, num_pairs of each label,
\* alternating from label 1.0.
C4_PairCount ==
  /\ \A k \in 1 .. Len(train_examples) :
       train_examples[k].label = (IF k % 2 = 1 THEN 1 ELSE 0)
  /\ (script = "SBERT" /\ pc \in {"for_pairs", "draw_same", "while_same"})
       => Len(train_examples) = 2 * i
  /\ (script = "SBERT" /\ pc \in {"draw_diff", "while_diff"})
       => Len(train_examples) = 2 * i + 1
  /\ (script = "SBERT" /\ pc \in AfterPairs)
       => /\ Len(train_examples) = 2 * num_pairs
          /\ Cardinality({k \in 1 .. Len(train_examples) :
                            train_examples[k].label = 1}) = num_pairs
          /\ Cardinality({k \in 1 .. Len(train_examples) :
                            train_examples[k].label = 0}) = num_pairs

C4_Witness ==
  /\ script = "SBERT" /\ pc = "encode_train"
  /\ Len(fit_examples) = 2 * num_pairs
  /\ num_pairs > 1

TruncatedTo(texts, labs, size, allTexts, allLabels) ==
  /\ Len(texts) = Min(size, Len(allTexts))
  /\ Len(texts) <= size
  /\ Len(labs) = Len(texts)
  /\ IsPrefix(texts, allTexts)
  /\ IsPrefix(labs, allLabels)

\* C5: in both scripts each truncated subset has min(configured size, split
\* size) documents, is a prefix of its split, and pairs every text with a
\* label.
C5_SubsetSizes ==
  /\ (script = "BERT" /\ pc \in BertAfterDatasets)
       => /\ TruncatedTo(train_dataset.texts, train_dataset.labels,
                         train_size, train_texts, train_labels)
          /\ TruncatedTo(test_dataset.texts, test_dataset.labels,
                         test_size, test_texts, test_labels)
  /\ (script = "SBERT" /\ pc \in SbertAfterSubset)
       => /\ TruncatedTo(train_texts_subset, train_labels_subset,
                         train_subset_size, train_texts, train_labels)
          /\ TruncatedTo(test_texts_subset, test_labels_subset,
                         test_subset_size, test_texts, test_labels)

C5_Witness ==
  /\ script = "SBERT" /\ pc = "for_pairs"
  /\ Len(train_texts) > train_subset_size
  /\ Len(test_texts) > test_subset_size
  /\ Len(train_texts_subset) = train_subset_size

ModelWrites == {k \in 1 .. Len(artifact) : artifact[k].item = "model"}

\* C6: the model is written at most once, only after training and the
\* report have completed and with the parameters of that moment; a fault in
\* any earlier stage leaves the artifact directory empty.
C6_SingleLateWrite ==
  /\ Cardinality(ModelWrites) <= 1
  /\ (pc \in {"save_model", "save"}) => (report # <<>> /\ artifact = <<>>)
  /\ (script = "BERT" /\ pc = "save_model")
       => (epochs_run = epochs /\ params = total_steps)
  /\ (script = "SBERT" /\ pc = "save")
       => (fit_examples = train_examples /\ fit_examples # <<>>)
  /\ (artifact # <<>>)
       => \/ pc \in {"save_tokenizer", "examples", "done"}
          \/ pc = "fault" /\ fault.at \in {"save_tokenizer", "examples"}
  /\ (artifact # <<>> /\ pc # "fault") => artifact[1].version = params
  /\ (pc = "fault" /\ fault.at \notin {"save_tokenizer", "examples"})
       => artifact = <<>>

C6_Witness ==
  /\ pc = "fault" /\ fault.at = "metrics" /\ fault.cause = "environment"
  /\ artifact = <<>>

\* the batches of one pass split the dataset: every document is in exactly
\* one of them
IsPartition(batches, n) ==
  /\ \A k \in 1 .. n : Cardinality({b \in 1 .. Len(batches) : k \in batches[b]}) = 1
  /\ \A b \in 1 .. Len(batches) : batches[b] # {} /\ batches[b] \subseteq 1 .. n

\* C7: train_epoch runs conf.epochs times, each pass visits every training
\* batch once, and evaluation starts only after the last pass, the
\* optimizer and the scheduler having been stepped len(train_loader) *
\* conf.epochs = total_steps times each.
C7_FixedEpochs ==
  LET n == Len(train_dataset.texts)
      nbatches == (n + batch_size - 1) \div batch_size
  IN /\ (script = "BERT" /\ pc \in BertAfterDatasets)
          => /\ epochs_run <= epochs
             /\ total_steps = nbatches * epochs
     /\ (script = "BERT" /\ pc = "epoch" /\ epochs_run > 0)
          => /\ IsPartition(visited, n)
             /\ Len(visited) = nbatches
             /\ opt_steps = epochs_run * nbatches
             /\ sched_steps = opt_steps
     /\ (script = "BERT" /\ pc \in BertEvalPcs)
          => /\ epochs_run = epochs
             /\ opt_steps = total_steps
             /\ sched_steps = total_steps

C7_Witness ==
  /\ script = "BERT" /\ pc = "eval"
  /\ Len(train_dataset.texts) > batch_size
  /\ Len(train_dataset.texts) % batch_size # 0

ThisBatch == {<<epoch, batch>>}

\* C8: within a batch the steps are forward, backward, clip, optimizer
\* step, scheduler step, gradient reset; no gradients are stored when a
\* forward pass starts, and every optimizer step uses the clipped gradients
\* of the current batch alone.
C8_StepOrder ==
  /\ pc \in {"forward", "backward"} => (grads = {} /\ opt_steps = sched_steps)
  /\ pc \in {"batch", "epoch", "eval", "eval_batch"} => grads = {}
  /\ pc = "clip" => (grads = ThisBatch /\ ~clipped /\ opt_steps = sched_steps)
  /\ pc = "opt_step" => (grads = ThisBatch /\ clipped /\ opt_steps = sched_steps)
  /\ pc = "sched_step"
       => /\ last_update = [batches |-> ThisBatch, clipped |-> TRUE]
          /\ opt_steps = sched_steps + 1
  /\ pc = "zero_grad"
       => /\ last_update = [batches |-> ThisBatch, clipped |-> TRUE]
          /\ opt_steps = sched_steps

C8_Witness ==
  /\ pc = "sched_step" /\ epoch > 0 /\ Len(visited) > 1

\* C9: eval_model changes neither the parameters nor the optimizer or
\* scheduler state, so the saved parameters are those after the last
\* training step; it returns one prediction and one true label per
\* test-subset document, the true labels in dataset order.
C9_EvalFrame ==
  /\ [][(pc \in BertEvalPcs /\ pc' # "fault")
          => UNCHANGED <<params, opt_steps, sched_steps, last_update, grads>>]_vars
  /\ []((script = "BERT" /\ pc = "eval_batch")
          => /\ Len(predictions) = Len(true_labels)
             /\ IsPrefix(true_labels, test_dataset.labels))
  /\ []((script = "BERT" /\ pc = "metrics")
          => /\ Len(predictions) = Len(test_dataset.texts)
             /\ true_labels = test_dataset.labels)
  /\ []((script = "BERT" /\ pc \in {"save_tokenizer", "done"})
          => artifact[1] = [item |-> "model", version |-> total_steps])

C9_Witness ==
  /\ script = "BERT" /\ pc = "metrics"
  /\ Len(predictions) > 1
  /\ params > 0

DocsOf(examples) ==
  UNION {Range(examples[k].texts) : k \in 1 .. Len(examples)}

\* C10: the train and the test split share no document, and every document
\* of an emitted pair, of the fine-tuning set and of the probe's training
\* set comes from the train subset, none from the test subset; the test
\* subset is only encoded for the predictions.
C10_NoTestLeak ==
  /\ Range(train_texts) \cap Range(test_texts) = {}
  /\ Range(train_texts_subset) \cap Range(test_texts_subset) = {}
  /\ DocsOf(train_examples) \subseteq Range(train_texts_subset)
  /\ DocsOf(fit_examples) \subseteq Range(train_texts_subset)
  /\ Range(classifier.X) \subseteq Range(train_texts_subset)
  /\ Range(classifier.X) \cap Range(test_texts_subset) = {}
  /\ Range(train_embeddings) \cap Range(test_texts_subset) = {}
  /\ Range(test_embeddings) \subseteq Range(test_texts_subset)

C10_Witness ==
  /\ script = "SBERT" /\ pc = "predict"
  /\ classifier.X # <<>>
  /\ fit_examples # <<>>
  /\ test_embeddings # <<>>
====
